---------------------------- MODULE Spec2Model ----------------------------
(***************************************************************************)
(* Model of the case-study search pipeline of app.py:                      *)
(*   process_data -> get_google_sheet_data -> merge_data ->                *)
(*   group_by_domain_and_paginate -> check_fw_tag_in_url /                 *)
(*   detect_firework_format.                                               *)
(*                                                                         *)
(* Table cells are dynamically typed as in pandas: a cell is NaN, a        *)
(* string, an integer or a float.  Strings are TLA+ strings handled        *)
(* character by character (Len, SubSeq, \o).  Floats and normalised        *)
(* numbers are kept as a count of tenths, so 42, 42.0 and "42" are all     *)
(* 420 tenths and 42.5 is 425 tenths.                                      *)
(***************************************************************************)
EXTENDS Integers, Sequences, FiniteSets, TLC

VARIABLES
    pc,                 \* position of process_data
    video_df, live_df,  \* the two uploaded performance tables
    sheet_csv,          \* the reference sheet as exported (before get_google_sheet_data)
    absent,             \* the columns the uploads and the sheet lack: <<table, column>>
    case_type, industry_filter, country, page, page_size,  \* request form
    format_filter,      \* request form: the format the rows are filtered by
    sheet_df,           \* result of get_google_sheet_data
    merged_df,          \* merge_data: the frame after the left merge, before filtering
    result_df,          \* result of merge_data
    pagination_result,  \* result of group_by_domain_and_paginate
    web,                \* what a GET of each URL answers: a document, or a failure
    flaky,              \* the URLs whose GET may also time out
    url_to_flag, url_to_format,   \* process_data: the result maps
    pending,            \* process_data: submitted checks not yet collected
    next_task,          \* executor: the next submitted check a worker will take
    in_flight,          \* executor: the checks a worker is running
    returned,           \* executor: the result of each finished check
    response,           \* process_data: the answer to the request
    api_response        \* api_check_fw_tag: the answer to the request

vars == <<pc, video_df, live_df, sheet_csv, case_type, industry_filter, country,
          page, page_size, sheet_df, merged_df, result_df, pagination_result,
          web, flaky, absent, url_to_flag, url_to_format, pending, next_task, in_flight,
          returned, format_filter, response, api_response>>

(***************************************************************************)
(* Cells                                                                   *)
(***************************************************************************)
NaN == [t |-> "nan"]
Str(s) == [t |-> "str", s |-> s]
IntCell(n) == [t |-> "int", v |-> n]
FloatCell(tenths) == [t |-> "float", v |-> tenths]
Num(tenths) == [t |-> "num", v |-> tenths]
\* Python None, as returned by a failed function or by urlparse().hostname
None == [t |-> "none"]

IsNull(c) == c.t \in {"nan", "none"}

(***************************************************************************)
(* Strings, character by character                                         *)
(***************************************************************************)
CharAt(s, i) == SubSeq(s, i, i)

Digits == <<"0", "1", "2", "3", "4", "5", "6", "7", "8", "9">>

IsDigit(c) == \E d \in 1..10 : Digits[d] = c

DigitVal(c) == (CHOOSE d \in 1..10 : Digits[d] = c) - 1

IsSpace(c) == c \in {" ", "\t", "\n", "\r"}

UpperLetters == "ABCDEFGHIJKLMNOPQRSTUVWXYZ"

LowerLetters == "abcdefghijklmnopqrstuvwxyz"

\* each upper-case letter with its lower-case letter
LowerOf ==
    [c \in {CharAt(UpperLetters, k) : k \in 1..26} |->
        CharAt(LowerLetters, CHOOSE k \in 1..26 : CharAt(UpperLetters, k) = c)]

IsUpper(c) == c \in DOMAIN LowerOf

IsLower(c) == c \in {LowerOf[u] : u \in DOMAIN LowerOf}

LowerChar(c) == IF IsUpper(c) THEN LowerOf[c] ELSE c

RECURSIVE Lower(_)
Lower(s) == IF s = "" THEN "" ELSE LowerChar(Head(s)) \o Lower(Tail(s))

\* str.strip(): leading and trailing whitespace removed
RECURSIVE LStrip(_)
LStrip(s) == IF s # "" /\ IsSpace(Head(s)) THEN LStrip(Tail(s)) ELSE s

RECURSIVE RStrip(_)
RStrip(s) ==
    IF s # "" /\ IsSpace(CharAt(s, Len(s)))
    THEN RStrip(SubSeq(s, 1, Len(s) - 1))
    ELSE s

Strip(s) == RStrip(LStrip(s))

\* s.find(sub) from position from: the first index >= from where sub starts, 0 if none
Find(s, sub, from) ==
    LET hits == {i \in from..(Len(s) - Len(sub) + 1) : SubSeq(s, i, i + Len(sub) - 1) = sub}
    IN  IF hits = {} THEN 0 ELSE CHOOSE i \in hits : \A j \in hits : i <= j

\* str.split(sep): the pieces between occurrences of sep, empty pieces kept
RECURSIVE Split(_, _)
Split(s, sep) ==
    LET i == Find(s, sep, 1)
    IN  IF i = 0
        THEN <<s>>
        ELSE <<SubSeq(s, 1, i - 1)>> \o Split(SubSeq(s, i + Len(sep), Len(s)), sep)

(***************************************************************************)
(* pd.to_numeric(column, errors='coerce'), cell by cell                    *)
(***************************************************************************)
RECURSIVE DigitsValue(_)
DigitsValue(s) ==
    IF s = "" THEN 0
    ELSE 10 * DigitsValue(SubSeq(s, 1, Len(s) - 1)) + DigitVal(CharAt(s, Len(s)))

AllDigits(s) == \A i \in 1..Len(s) : IsDigit(CharAt(s, i))

\* The numeric strings the model reads: [sign] digits [ "." [digit] ], with
\* surrounding whitespace ignored.  Any other text is not a number.
ParseNumber(text) ==
    LET s    == Strip(text)
        neg  == s # "" /\ Head(s) = "-"
        body == IF s # "" /\ Head(s) \in {"-", "+"} THEN Tail(s) ELSE s
        dot  == Find(body, ".", 1)
        ip   == IF dot = 0 THEN body ELSE SubSeq(body, 1, dot - 1)
        fp   == IF dot = 0 THEN "" ELSE SubSeq(body, dot + 1, Len(body))
        ok   == ip # "" /\ AllDigits(ip) /\ AllDigits(fp) /\ Len(fp) <= 1
        mag  == 10 * DigitsValue(ip) + DigitsValue(fp)
    IN  IF ok THEN Num(IF neg THEN 0 - mag ELSE mag) ELSE NaN

to_numeric(c) ==
    CASE c.t = "int"   -> Num(10 * c.v)
      [] c.t = "float" -> Num(c.v)
      [] c.t = "num"   -> c
      [] c.t = "str"   -> ParseNumber(c.s)
      [] OTHER         -> NaN

(***************************************************************************)
(* Region resolver                                                         *)
(***************************************************************************)
Americas == {"Americas", "United States", "Brazil", "Mexico", "Canada", "Colombia", "Chile"}

Europe == {"Europe", "Germany", "France", "United Kingdom", "Italy", "Spain", "Poland",
           "Ukraine", "Netherlands", "Belgium", "Sweden", "Austria", "Switzerland",
           "Denmark", "Norway", "Ireland", "Lithuania"}

ChinaANZ == {"China/ANZ", "China", "Australia", "New Zealand", "Hong Kong", "Taiwan"}

SEASAMEA == {"SEA/SA/MEA", "India", "Pakistan", "Thailand", "Malaysia", "Singapore",
             "South Korea", "Egypt", "Turkey", "South Africa", "Jordan",
             "United Arab Emirates", "Israel", "Qatar"}

MappedCountries == Americas \cup Europe \cup {"Japan"} \cup ChinaANZ \cup SEASAMEA

COUNTRY_TO_REGION_MAPPING ==
    [c \in MappedCountries |->
        CASE c \in Americas -> <<"Americas">>
          [] c \in Europe   -> <<"Europe">>
          [] c = "Japan"    -> <<"Japan">>
          [] c \in ChinaANZ -> <<"China/ANZ">>
          [] OTHER          -> <<"SEA/SA/MEA">>]

\* a lookup that ignores the case of the name
get_country_regions_any_case(country_name) ==
    IF \E c \in MappedCountries : Lower(c) = Lower(country_name)
    THEN COUNTRY_TO_REGION_MAPPING[CHOOSE c \in MappedCountries : Lower(c) = Lower(country_name)]
    ELSE <<country_name>>

\* lines 143-159
get_country_regions(country_name) ==
    IF country_name \in DOMAIN COUNTRY_TO_REGION_MAPPING
    THEN COUNTRY_TO_REGION_MAPPING[country_name]
    ELSE <<country_name>>

(***************************************************************************)
(* urlparse(x).hostname                                                    *)
(***************************************************************************)
IsSchemeChar(c) == IsUpper(c) \/ IsLower(c) \/ IsDigit(c) \/ c \in {"+", "-", "."}

\* the first index >= from of a character of set, Len(s) + 1 if none
FirstOf(s, set, from) ==
    LET hits == {i \in from..Len(s) : CharAt(s, i) \in set}
    IN  IF hits = {} THEN Len(s) + 1 ELSE CHOOSE i \in hits : \A j \in hits : i <= j

\* the last index of character c, 0 if none
LastOf(s, c) ==
    LET hits == {i \in 1..Len(s) : CharAt(s, i) = c}
    IN  IF hits = {} THEN 0 ELSE CHOOSE i \in hits : \A j \in hits : i >= j

urlparse_hostname(url) ==
    LET i         == Find(url, ":", 1)
        hasScheme == /\ i > 1
                     /\ IsUpper(Head(url)) \/ IsLower(Head(url))
                     /\ \A k \in 1..(i - 1) : IsSchemeChar(CharAt(url, k))
        rest      == IF hasScheme THEN SubSeq(url, i + 1, Len(url)) ELSE url
        hasNetloc == Len(rest) >= 2 /\ SubSeq(rest, 1, 2) = "//"
        netloc    == SubSeq(rest, 3, FirstOf(rest, {"/", "?", "#"}, 3) - 1)
        hostinfo  == SubSeq(netloc, LastOf(netloc, "@") + 1, Len(netloc))
        hostname  == SubSeq(hostinfo, 1, FirstOf(hostinfo, {":"}, 1) - 1)
    IN  IF hasNetloc /\ hostname # "" THEN Str(Lower(hostname)) ELSE None

(***************************************************************************)
(* merge_data                                                              *)
(***************************************************************************)
RECURSIVE Concat(_)
Concat(ss) == IF ss = <<>> THEN <<>> ELSE Head(ss) \o Concat(Tail(ss))

Range(s) == {s[i] : i \in DOMAIN s}

\* lines 168-173: the table the case type selects
SelectMain(video, live, ctype) == IF ctype = "short_video" THEN video ELSE live

\* lines 182-183: Business Id of every row through pd.to_numeric
NormalizeKeys(rows) == [i \in DOMAIN rows |-> [rows[i] EXCEPT !.key = to_numeric(@)]]

\* pandas compares merge keys by value, and takes two missing keys (NaN) as equal
KeyMatch(a, b) == a = b

\* the reference rows a performance row joins, in reference order
MatchIdx(key, sheet) ==
    SelectSeq([j \in 1..Len(sheet) |-> j], LAMBDA j : KeyMatch(sheet[j].key, key))

\* one merged row: the performance row's columns and the reference row's;
\* src and ref record which rows it was joined from (ref = 0: no match)
Joined(main, sheet, i, j) ==
    [src      |-> i,
     ref      |-> j,
     key      |-> main[i].key,
     url      |-> main[i].url,
     views    |-> main[i].views,
     industry |-> IF j = 0 THEN NaN ELSE sheet[j].industry,
     region   |-> IF j = 0 THEN NaN ELSE sheet[j].region,
     channel  |-> IF j = 0 THEN NaN ELSE sheet[j].channel]

\* lines 191-198: sheet_df[available_cols]; Channel Name only when the sheet has it
AvailableCols(sheet) ==
    [j \in DOMAIN sheet.rows |->
        [key      |-> sheet.rows[j].key,
         industry |-> sheet.rows[j].industry,
         region   |-> sheet.rows[j].region,
         channel  |-> IF sheet.channel_col THEN sheet.rows[j].channel ELSE NaN]]

\* an inner join: the performance rows without a match are dropped
LeftMergeInner(main, sheet) ==
    Concat([i \in 1..Len(main) |->
        LET m == MatchIdx(main[i].key, sheet)
        IN  [k \in 1..Len(m) |-> Joined(main, sheet, i, m[k])]])

\* lines 197-201: main_df.merge(sheet_df[available_cols], on='Business Id', how='left')
LeftMerge(main, sheet) ==
    Concat([i \in 1..Len(main) |->
        LET m == MatchIdx(main[i].key, sheet)
        IN  IF m = <<>>
            THEN <<Joined(main, sheet, i, 0)>>
            ELSE [k \in 1..Len(m) |-> Joined(main, sheet, i, m[k])]])

\* lines 213-220: the industry names of a comma separated filter string
Industries(filter) ==
    IF filter # "" /\ filter # "none"
    THEN {Strip(p) : p \in {q \in Range(Split(filter, ",")) : Strip(q) # ""}}
    ELSE {}

\* Series.isin(list of strings)
IsIn(cell, names) == cell.t = "str" /\ cell.s \in names

\* lines 222-225
IndustryFilter(rows, filter) ==
    IF Industries(filter) # {}
    THEN SelectSeq(rows, LAMBDA r : IsIn(r.industry, Industries(filter)))
    ELSE rows

\* the territory compared with the country name itself, the resolver left out
CountryFilterByName(rows, ctry) ==
    IF ctry # "none"
    THEN SelectSeq(rows, LAMBDA r : IsIn(r.region, {ctry}))
    ELSE rows

\* a filter that keeps every row when no row is of the country's regions
CountryFilterOrAll(rows, ctry) ==
    LET kept == SelectSeq(rows, LAMBDA r : IsIn(r.region, Range(get_country_regions(ctry))))
    IN  IF ctry # "none" /\ kept # <<>> THEN kept ELSE rows

\* lines 227-234
CountryFilter(rows, ctry) ==
    IF ctry # "none"
    THEN SelectSeq(rows, LAMBDA r : IsIn(r.region, Range(get_country_regions(ctry))))
    ELSE rows

\* DataFrame.fillna('') on one cell
FillNa(c) == IF c.t = "nan" THEN Str("") ELSE c

\* line 270
Domain(urlCell) ==
    IF urlCell.t = "str" /\ urlCell.s # "" THEN urlparse_hostname(urlCell.s) ELSE Str("")

\* lines 242-270: projection, renaming, the empty format column, fillna, the domain
Project(r) ==
    [src      |-> r.src,
     ref      |-> r.ref,
     channel  |-> FillNa(r.channel),
     industry |-> FillNa(r.industry),
     region   |-> FillNa(r.region),
     url      |-> FillNa(r.url),
     views    |-> FillNa(r.views),
     format   |-> Str(""),
     domain   |-> Domain(FillNa(r.url))]

\* the merged frame of merge_data, before the filters
Merged(video, live, sheet, ctype) ==
    LeftMerge(NormalizeKeys(SelectMain(video, live, ctype)),
              NormalizeKeys(AvailableCols(sheet)))

\* lines 176, 242-250: the columns merge_data reads from the performance table
RequiredMain == {"Business Id", "Page Url", "Video Views"}

\* lines 178, 191: the columns merge_data reads from the reference sheet
RequiredSheet ==
    {"Business Id", "Account: Account Name", "Account: Industry", "Account: Owner Territory"}

MainTable(ctype) == IF ctype = "short_video" THEN "video" ELSE "live"

\* the columns merge_data reads and does not find, lacking being the set of
\* <<table, column>> the tables lack: indexing one of them raises KeyError
MissingColumns(lacking, ctype) ==
    lacking \cap ({<<MainTable(ctype), col>> : col \in RequiredMain}
                      \cup {<<"sheet", col>> : col \in RequiredSheet})

\* the frame merge_data returns; channel_col: whether it has a channel name column
merge_data(video, live, sheet, ctype, filter, ctry) ==
    LET filtered == CountryFilter(IndustryFilter(Merged(video, live, sheet, ctype), filter), ctry)
    IN  [channel_col |-> sheet.channel_col,
         rows        |-> [i \in DOMAIN filtered |-> Project(filtered[i])]]

(***************************************************************************)
(* Ordering of cells, as Python orders str and int                         *)
(***************************************************************************)
Ascii == " !\"#$%&'()*+,-./0123456789:;<=>?@ABCDEFGHIJKLMNOPQRSTUVWXYZ[\\]^_abcdefghijklmnopqrstuvwxyz{|}~"

CharRank(c) == Find(Ascii, c, 1)

RECURSIVE StrLess(_, _)
StrLess(a, b) ==
    IF b = "" THEN FALSE
    ELSE IF a = "" THEN TRUE
    ELSE IF Head(a) = Head(b) THEN StrLess(Tail(a), Tail(b))
    ELSE CharRank(Head(a)) < CharRank(Head(b))

\* a < b for two cells of one type
CellLess(a, b) == IF a.t = "str" THEN StrLess(a.s, b.s) ELSE a.v < b.v

\* seq[start:end] as Python slices, negative positions counted from the end
PySlice(s, start, end) ==
    LET n    == Len(s)
        clip(i) == IF i < 0 THEN (IF n + i < 0 THEN 0 ELSE n + i) ELSE (IF i > n THEN n ELSE i)
        lo   == clip(start)
        hi   == clip(end)
    IN  IF lo >= hi THEN <<>> ELSE SubSeq(s, lo + 1, hi)

(***************************************************************************)
(* group_by_domain_and_paginate                                            *)
(***************************************************************************)
\* line 328: head(3)
MaxPerGroup == 3

\* the channel name only when every record carries one
GroupColumnIfAllNamed(df) ==
    IF df.channel_col /\ \A i \in DOMAIN df.rows : df.rows[i].channel # Str("")
    THEN "channel"
    ELSE "domain"

\* lines 287-291: the grouping column, decided by the columns of the frame
GroupColumn(df) == IF df.channel_col THEN "channel" ELSE "domain"

GroupKey(r, col) == IF col = "channel" THEN r.channel ELSE r.domain

\* groupby leaves out the rows whose key is missing
Keys(rows, col) == {GroupKey(rows[i], col) : i \in DOMAIN rows} \ {None, NaN}

RowsOf(rows, col, k) == SelectSeq(rows, LAMBDA r : GroupKey(r, col) = k)

\* '_views': 'sum' over the cells of one group: numbers add up, strings are
\* concatenated, a number and a string cannot be added (TypeError)
RECURSIVE SumCells(_)
SumCells(cells) ==
    IF Len(cells) = 1 THEN cells[1]
    ELSE LET a == SumCells(SubSeq(cells, 1, Len(cells) - 1))
             b == cells[Len(cells)]
         IN  CASE a.t = "error" \/ a.t # b.t -> [t |-> "error"]
               [] a.t = "str"                -> Str(a.s \o b.s)
               [] OTHER                      -> IntCell(a.v + b.v)

\* lines 294-306: one row of channel_summary
Aggregate(rows, col, k) ==
    LET g == RowsOf(rows, col, k)
    IN  [key         |-> k,
         industry    |-> g[1].industry,
         region      |-> g[1].region,
         total_views |-> SumCells([i \in DOMAIN g |-> g[i].views]),
         url_count   |-> Len(g)]

Summaries(df) ==
    {Aggregate(df.rows, GroupColumn(df), k) : k \in Keys(df.rows, GroupColumn(df))}

\* a grouping that also raises on a frame without rows
GroupingFailsOnEmpty(df) ==
    \/ df.rows = <<>>
    \/ \E g \in Summaries(df) : g.total_views.t = "error"
    \/ \E g, h \in Summaries(df) : g.total_views.t # h.total_views.t

\* the aggregation or the sort raises: a sum that cannot be formed, or totals
\* of different types that cannot be compared
GroupingFails(df) ==
    \/ \E g \in Summaries(df) : g.total_views.t = "error"
    \/ \E g, h \in Summaries(df) : g.total_views.t # h.total_views.t

\* the groups in ascending order of their totals
RECURSIVE RankOrdersAscending(_)
RankOrdersAscending(gs) ==
    IF gs = {} THEN {<<>>}
    ELSE UNION {{<<g>> \o r : r \in RankOrdersAscending(gs \ {g})} :
                g \in {h \in gs : \A o \in gs : ~CellLess(o.total_views, h.total_views)}}

\* line 309: sort_values('_views', ascending=False) with the default sort
\* kind, which is not stable: every descending order of the groups
RECURSIVE RankOrders(_)
RankOrders(gs) ==
    IF gs = {} THEN {<<>>}
    ELSE UNION {{<<g>> \o r : r \in RankOrders(gs \ {g})} :
                g \in {h \in gs : \A o \in gs : ~CellLess(h.total_views, o.total_views)}}

\* line 325: sort_values([group_column, '_views'], ascending=[True, False]),
\* a stable sort on both columns
DetailLess(a, b, col) ==
    \/ CellLess(GroupKey(a, col), GroupKey(b, col))
    \/ GroupKey(a, col) = GroupKey(b, col) /\ CellLess(b.views, a.views)

RECURSIVE Insert(_, _, _)
Insert(sorted, x, col) ==
    IF sorted = <<>> THEN <<x>>
    ELSE IF DetailLess(x, Head(sorted), col) THEN <<x>> \o sorted
    ELSE <<Head(sorted)>> \o Insert(Tail(sorted), x, col)

RECURSIVE SortDetail(_, _)
SortDetail(s, col) ==
    IF s = <<>> THEN <<>>
    ELSE Insert(SortDetail(SubSeq(s, 1, Len(s) - 1), col), s[Len(s)], col)

\* line 328: groupby(group_column).head(3): the first rows of each group, in place
RECURSIVE HeadPerGroup(_, _, _)
HeadPerGroup(s, col, n) ==
    IF s = <<>> THEN <<>>
    ELSE LET init == SubSeq(s, 1, Len(s) - 1)
             x    == s[Len(s)]
         IN  IF Len(RowsOf(init, col, GroupKey(x, col))) < n
             THEN HeadPerGroup(init, col, n) \o <<x>>
             ELSE HeadPerGroup(init, col, n)

\* the slice started one page too far
PageOfNext(ranked, p, size) == PySlice(ranked, p * size, p * size + size)

\* lines 313-316
PageOf(ranked, p, size) == PySlice(ranked, (p - 1) * size, (p - 1) * size + size)

\* the cap applied to the rows as they come, without the sort by views
DetailedDataUnsorted(df, paginated) ==
    LET col          == GroupColumn(df)
        channel_list == {paginated[i].key : i \in DOMAIN paginated}
        selected     == SelectSeq(df.rows, LAMBDA r : GroupKey(r, col) \in channel_list)
    IN  HeadPerGroup(selected, col, MaxPerGroup)

\* lines 320-328
DetailedData(df, paginated) ==
    LET col          == GroupColumn(df)
        channel_list == {paginated[i].key : i \in DOMAIN paginated}
        selected     == SelectSeq(df.rows, LAMBDA r : GroupKey(r, col) \in channel_list)
    IN  HeadPerGroup(SortDetail(selected, col), col, MaxPerGroup)

\* the value group_by_domain_and_paginate returns when the ranking is ranked
group_by_domain_and_paginate(df, ranked, p, size) ==
    [group_column       |-> GroupColumn(df),
     channel_summary    |-> ranked,
     paginated_channels |-> PageOf(ranked, p, size),
     detailed_data      |-> DetailedData(df, PageOf(ranked, p, size)),
     total_domains      |-> Len(ranked),
     current_page       |-> p,
     page_size          |-> size,
     has_next           |-> (p - 1) * size + size < Len(ranked)]

(***************************************************************************)
(* Regular expressions of detect_firework_format, matched character by     *)
(* character.  A pattern is a sequence of elements:                        *)
(*   lit  s        the text s, letters compared without case (IGNORECASE)  *)
(*   one  set      one character of set                 ["']               *)
(*   star set      any run of characters not in set     [^>]*  [^"']*      *)
(*   nla  set alts a negative lookahead: no text of alts starts within the *)
(*                 run of characters not in set  (?![^>]*(?:a|b|c))        *)
(*   word          one or more of [\w-]                                    *)
(***************************************************************************)
Lit(s) == [t |-> "lit", s |-> s]
One(set) == [t |-> "one", set |-> set]
StarNot(set) == [t |-> "star", set |-> set]
NotAhead(set, alts) == [t |-> "nla", set |-> set, alts |-> alts]
WordPlus == [t |-> "word"]

Quote == {"\"", "'"}

IsWordChar(c) == IsUpper(c) \/ IsLower(c) \/ IsDigit(c) \/ c \in {"_", "-"}

\* the characters of text, in lower case
LowerChars(text) == [i \in 1..Len(text) |-> LowerChar(CharAt(text, i))]

\* doc is a sequence of characters from here on
LitAt(doc, i, s) ==
    /\ i + Len(s) - 1 <= Len(doc)
    /\ \A j \in 1..Len(s) : doc[i + j - 1] = CharAt(s, j)

\* the end of the run of characters not in set that starts at i
RunEnd(doc, i, set) ==
    LET hits == {j \in i..Len(doc) : doc[j] \in set}
    IN  IF hits = {} THEN Len(doc) + 1 ELSE CHOOSE j \in hits : \A o \in hits : j <= o

WordEnd(doc, i) ==
    LET stops == {j \in i..Len(doc) : ~IsWordChar(doc[j])}
    IN  IF stops = {} THEN Len(doc) + 1 ELSE CHOOSE j \in stops : \A o \in stops : j <= o

\* whether the elements k.. of pat match doc from position i
RECURSIVE MatchFrom(_, _, _, _)
MatchFrom(pat, k, doc, i) ==
    IF k > Len(pat) THEN TRUE
    ELSE LET e == pat[k]
         IN  CASE e.t = "lit"  -> LitAt(doc, i, e.s) /\ MatchFrom(pat, k + 1, doc, i + Len(e.s))
               [] e.t = "one"  -> /\ i <= Len(doc)
                                  /\ doc[i] \in e.set
                                  /\ MatchFrom(pat, k + 1, doc, i + 1)
               [] e.t = "star" -> \E j \in i..RunEnd(doc, i, e.set) : MatchFrom(pat, k + 1, doc, j)
               [] e.t = "nla"  -> /\ ~\E j \in i..RunEnd(doc, i, e.set) :
                                        \E a \in e.alts : LitAt(doc, j, a)
                                  /\ MatchFrom(pat, k + 1, doc, i)
               [] e.t = "word" -> \E j \in (i + 1)..WordEnd(doc, i) : MatchFrom(pat, k + 1, doc, j)

\* re.search(pattern, html_content, re.IGNORECASE | re.DOTALL): the patterns
\* are written in lower case and their character classes hold no letter, so
\* ignoring case is matching against the document in lower case
Search(pat, doc) ==
    \E text \in {doc} : \E lowered \in {LowerChars(text)} :
        \E i \in 1..Len(lowered) : MatchFrom(pat, 1, lowered, i)

\* lines 422-455: the rules, one definition each
RuleHorizontalCarousel ==
    [pattern |-> <<Lit("<fw-embed-feed"), StarNot({">"}), Lit("style="), One(Quote),
                   StarNot(Quote), Lit("thumbnail"), StarNot(Quote), One(Quote),
                   StarNot({">"}), Lit(">")>>,
     format  |-> "Horizontal Carousel"]

RuleDynamicCarousel ==
    [pattern |-> <<Lit("<fw-embed-feed"), StarNot({">"}), Lit("thumbnail_style="), One(Quote),
                   Lit("dynamic"), One(Quote), StarNot({">"}), Lit(">")>>,
     format  |-> "Dynamic Carousel"]

RuleGrid ==
    [pattern |-> <<Lit("<fw-embed-feed"), StarNot({">"}), Lit("mode="), One(Quote),
                   Lit("grid"), One(Quote), StarNot({">"}), Lit(">")>>,
     format  |-> "Grid"]

RuleCarousel ==
    [pattern |-> <<Lit("<fw-embed-feed"), StarNot({">"}), Lit("mode="), One(Quote),
                   Lit("row"), One(Quote), StarNot({">"}), Lit(">")>>,
     format  |-> "Carousel"]

RuleStoryBlock ==
    [pattern |-> <<Lit("<fw-embed-feed"),
                   NotAhead({">"}, {"mode=", "style=", "thumbnail_style="}),
                   StarNot({">"}), Lit(">")>>,
     format  |-> "Story Block"]

RuleCircleStories ==
    [pattern |-> <<Lit("<fw-stories"), StarNot({">"}), Lit("thumbnail_shape="), One(Quote),
                   Lit("circle"), One(Quote), StarNot({">"}), Lit(">")>>,
     format  |-> "Circle Stories"]

RuleVerticalStories ==
    [pattern |-> <<Lit("<fw-stories"), StarNot({">"}), Lit("thumbnail_shape="), One(Quote),
                   Lit("rectangle"), One(Quote), StarNot({">"}), Lit(">")>>,
     format  |-> "Vertical Stories"]

RuleFloatingPlayer ==
    [pattern |-> <<Lit("<fw-storyblock"), StarNot({">"}), Lit("mode="), One(Quote),
                   Lit("pinned"), One(Quote), StarNot({">"}), Lit(">")>>,
     format  |-> "Floating Player"]

RuleHorizontalPlayer ==
    [pattern |-> <<Lit("<fw-player"), StarNot({">"}), Lit(">")>>,
     format  |-> "Horizontal Player"]

RuleHeroUnit ==
    [pattern |-> <<Lit("<fw-herounit"), StarNot({">"}), Lit(">")>>,
     format  |-> "Hero Unit"]

RulePlayerDeck ==
    [pattern |-> <<Lit("<fw-player-deck"), StarNot({">"}), Lit(">")>>,
     format  |-> "Player Deck"]

\* the generic fw-embed-feed rule tried before the specific ones
format_patterns_generic_first ==
    <<RuleStoryBlock, RuleHorizontalCarousel, RuleDynamicCarousel, RuleGrid, RuleCarousel,
      RuleCircleStories, RuleVerticalStories, RuleFloatingPlayer, RuleHorizontalPlayer,
      RuleHeroUnit, RulePlayerDeck>>

\* lines 422-455, in list order
format_patterns ==
    <<RuleHorizontalCarousel, RuleDynamicCarousel, RuleGrid, RuleCarousel, RuleStoryBlock,
      RuleCircleStories, RuleVerticalStories, RuleFloatingPlayer, RuleHorizontalPlayer,
      RuleHeroUnit, RulePlayerDeck>>

\* the prefix alone, with no name after it
marker_prefix == <<Lit("<fw-")>>

\* lines 464 and 479: r'<fw-[\w-]+'
marker_pattern == <<Lit("<fw-"), WordPlus>>

\* lines 458-461: the patterns that match, by position in the list
MatchingRules(html) ==
    {k \in DOMAIN format_patterns : Search(format_patterns[k].pattern, html)}

FirstRule(ks) == CHOOSE k \in ks : \A o \in ks : k <= o

LastRule(ks) == CHOOSE k \in ks : \A o \in ks : k >= o

\* the last matching rule of the list instead of the first
detect_firework_format_last(html_content) ==
    IF html_content = "" THEN "Unknown"
    ELSE IF MatchingRules(html_content) # {}
    THEN format_patterns[LastRule(MatchingRules(html_content))].format
    ELSE "Unknown"

\* lines 411-468
detect_firework_format(html_content) ==
    IF html_content = "" THEN "Unknown"
    ELSE IF MatchingRules(html_content) # {}
    THEN format_patterns[FirstRule(MatchingRules(html_content))].format
    ELSE "Unknown"

\* requests.get(url, timeout=10): a response with a status and a body, or an
\* exception (timeout, DNS or TLS failure)
Response(status, parts) == [kind |-> "response", status |-> status, parts |-> parts]

Timeout == [kind |-> "exception"]

\* response.text: the body, here the concatenation of its parts
RECURSIVE Join(_)
Join(parts) == IF parts = <<>> THEN "" ELSE Head(parts) \o Join(Tail(parts))

\* lines 470-489: (has_fw_tag, html_content, format_name)
check_fw_tag_in_url(got) ==
    IF got.kind = "exception"
    THEN [has_fw_tag |-> FALSE, html_content |-> None, format_name |-> "Unknown"]
    ELSE LET html_content == Join(got.parts)
             has_fw_tag   == Search(marker_pattern, html_content)
         IN  [has_fw_tag   |-> has_fw_tag,
              html_content |-> Str(html_content),
              format_name  |-> IF has_fw_tag THEN detect_firework_format(html_content)
                               ELSE "Unknown"]

(***************************************************************************)
(* get_google_sheet_data                                                   *)
(***************************************************************************)
\* line 134: the text that replaces a missing industry
UnknownIndustry == "Unknown"

\* lines 128-135: Business Id to numbers, a missing industry to the Unknown text
get_google_sheet_data(csv) ==
    [channel_col |-> csv.channel_col,
     rows        |-> [j \in DOMAIN csv.rows |->
                        [csv.rows[j] EXCEPT
                            !.key      = to_numeric(@),
                            !.industry = IF @.t = "nan" THEN Str(UnknownIndustry) ELSE @]]]

(***************************************************************************)
(* process_data: the check of the URLs of the page                         *)
(***************************************************************************)
\* requests.get raises for a URL it cannot request (no scheme, empty)
Fetch(u) == IF u \in DOMAIN web THEN web[u] ELSE Timeout

\* what one GET of u can give: the site's answer, or a timeout when it is flaky
Outcomes(u) == {Fetch(u)} \cup (IF u \in flaky THEN {Timeout} ELSE {})

\* line 619: ThreadPoolExecutor(max_workers=10)
max_workers == 10

\* lines 607-614: (url, has_fw_tag, format_name); check_fw_tag_in_url has
\* caught what the request raised
check_url_wrapper(url, got) ==
    LET checked == check_fw_tag_in_url(got)
    IN  [url         |-> url,
         has_fw_tag  |-> checked.has_fw_tag,
         format_name |-> checked.format_name]

\* line 642: the label of the form that stands for no format; the form sends
\* it in Japanese (sentaku shinai, "do not select"), written in Latin letters here
NoSelection == "sentaku shinai"

\* line 642: whether the format filter is applied
FormatFilterActive(filter) == filter # "" /\ filter # "none" /\ filter # NoSelection

\* lines 635-636: the two maps read for every row of detailed_data
WithChecks(rows, flags, formats) ==
    [i \in DOMAIN rows |->
        [row        |-> [rows[i] EXCEPT !.format = Str(formats[rows[i].url.s])],
         has_fw_tag |-> flags[rows[i].url.s]]]

\* lines 647-669: the columns of the answer (the hostname, the marker flag
\* and the view count are dropped); src and ref tell which row it is
ResponseRow(r) ==
    [src      |-> r.src,
     ref      |-> r.ref,
     channel  |-> r.channel,
     industry |-> r.industry,
     region   |-> r.region,
     format   |-> r.format,
     url      |-> r.url]

\* the rows filtered by format whether or not they carry a marker
FilteredDataUnmarked(rows, flags, formats, filter) ==
    LET checked == WithChecks(rows, flags, formats)
        wanted  == IF FormatFilterActive(filter)
                   THEN SelectSeq(checked, LAMBDA c : c.row.format = Str(filter))
                   ELSE checked
    IN  [i \in DOMAIN wanted |-> ResponseRow(wanted[i].row)]

\* lines 639-644: the rows with a marker, then those of the format asked for
FilteredData(rows, flags, formats, filter) ==
    LET checked == WithChecks(rows, flags, formats)
        marked  == SelectSeq(checked, LAMBDA c : c.has_fw_tag)
        wanted  == IF FormatFilterActive(filter)
                   THEN SelectSeq(marked, LAMBDA c : c.row.format = Str(filter))
                   ELSE marked
    IN  [i \in DOMAIN wanted |-> ResponseRow(wanted[i].row)]

\* the answer with the paging data counted on the rows returned
ResultOfRows(paginated, data) ==
    [data          |-> data,
     total_count   |-> Len(data),
     total_domains |-> Len(data),
     current_page  |-> paginated.current_page,
     page_size     |-> paginated.page_size,
     has_next      |-> Len(data) >= paginated.page_size]

\* lines 678-687: the JSON answer of process_data
Result(paginated, data) ==
    [data          |-> data,
     total_count   |-> Len(data),
     total_domains |-> paginated.total_domains,
     current_page  |-> paginated.current_page,
     page_size     |-> paginated.page_size,
     has_next      |-> paginated.has_next]

Put(map, k, v) == [x \in DOMAIN map \cup {k} |-> IF x = k THEN v ELSE map[x]]

EmptyMap == [x \in {} |-> FALSE]

(***************************************************************************)
(* Bounds and inputs                                                       *)
(***************************************************************************)
MaxPerfRows == 2
MaxSheetRows == 2
MaxGroupRows == 3
MaxPage == 2
MaxTags == 2

SeqsUpTo(S, n) == UNION {[1..m -> S] : m \in 0..n}

P(key, url, views) == [key |-> key, url |-> url, views |-> views]

S(key, industry, region, channel) ==
    [key |-> key, industry |-> industry, region |-> region, channel |-> channel]

UrlA1 == "https://a.com/1"
UrlA2 == "https://a.com/2"
UrlA3 == "https://A.com:8080/3"
UrlB1 == "http://b.com/1"
UrlB2 == "http://b.com/2"
UrlNoScheme == "b.com/x"

\* the Business Id cells of the uploads and of the sheet
KeyCells == {Str("42"), IntCell(42), FloatCell(420), FloatCell(425), Str("N/A"), NaN, IntCell(7)}

KeyRows == {P(k, Str(UrlA1), IntCell(10)) : k \in KeyCells}

KeySheetRows ==
    {S(FloatCell(420), Str("Retail"), Str("Japan"), Str("A")),
     S(Str(" 42 "), Str("Food"), Str("Americas"), Str("B")),
     S(IntCell(7), NaN, Str("Americas"), NaN),
     S(NaN, Str("Retail"), NaN, Str("C"))}

LiveTable == <<P(IntCell(7), Str(UrlB1), IntCell(5))>>

FilterVideo ==
    <<P(IntCell(1), Str(UrlA1), IntCell(10)), P(IntCell(2), Str(UrlB1), IntCell(5)),
      P(IntCell(3), Str(UrlA2), IntCell(7)), P(IntCell(4), Str(UrlB2), IntCell(1)),
      P(IntCell(9), Str(UrlA3), IntCell(2))>>

FilterLive ==
    <<P(IntCell(2), Str(UrlB1), IntCell(5)), P(IntCell(3), Str(UrlA1), IntCell(5))>>

FilterSheet ==
    [channel_col |-> TRUE,
     rows |-> <<S(IntCell(1), Str("Retail"), Str("Japan"), Str("A")),
                S(IntCell(2), Str("Food"), Str("Americas"), Str("B")),
                S(IntCell(3), NaN, Str("Americas"), Str("C")),
                S(IntCell(4), Str("Retail"), Str("Atlantis"), Str("D"))>>]

IndustryFilters == {"none", "", "Retail", "Retail, Food", ",", " Food ,", "Toys", "Unknown,Retail"}

Countries == {"none", "Japan", "United States", "Atlantis", "japan", ""}

\* what the sites answer when nothing else is said
Page(parts) == Response(200, parts)

DefaultWeb ==
    [u \in {UrlA1, UrlA2, UrlA3, UrlB1, UrlB2} |->
        IF u \in {UrlA1, UrlA2} THEN Page(<<"<fw-embed-feed mode=\"grid\">">>)
        ELSE IF u = UrlB1 THEN Page(<<"<div>">>)
        ELSE Timeout]

Unset ==
    /\ pc = "request"
    /\ sheet_df = None
    /\ merged_df = None
    /\ result_df = None
    /\ pagination_result = None
    /\ url_to_flag = EmptyMap
    /\ url_to_format = EmptyMap
    /\ pending = {}
    /\ next_task = 1
    /\ in_flight = {}
    /\ returned = EmptyMap
    /\ response = None
    /\ api_response = None

\* uploads and sheets that differ in their Business Id cells, no filter
InitKeys ==
    /\ video_df \in SeqsUpTo(KeyRows, MaxPerfRows)
    /\ live_df = LiveTable
    /\ \E rows \in SeqsUpTo(KeySheetRows, MaxSheetRows), col \in BOOLEAN :
            sheet_csv = [channel_col |-> col, rows |-> rows]
    /\ case_type = "short_video"
    /\ industry_filter = "none"
    /\ country = "none"
    /\ page = 1
    /\ page_size = 5
    /\ web = DefaultWeb
    /\ flaky = {}
    /\ absent = {}
    /\ format_filter = "none"
    /\ Unset

\* one upload and one sheet under every filter
InitFilters ==
    /\ video_df = FilterVideo
    /\ live_df = FilterLive
    /\ sheet_csv = FilterSheet
    /\ case_type \in {"short_video", "live_stream"}
    /\ industry_filter \in IndustryFilters
    /\ country \in Countries
    /\ page = 1
    /\ page_size = 5
    /\ web = DefaultWeb
    /\ flaky = {}
    /\ absent = {}
    /\ format_filter = "none"
    /\ Unset

InitMerge == InitKeys \/ InitFilters

\* the columns an upload or a sheet may lack
Lackable ==
    {<<"video", col>> : col \in RequiredMain} \cup {<<"live", "Business Id">>}
    \cup {<<"sheet", col>> : col \in RequiredSheet}

\* one upload and one sheet, with and without each of the columns merge_data reads
InitColumns ==
    /\ video_df = FilterVideo
    /\ live_df = FilterLive
    /\ sheet_csv = FilterSheet
    /\ case_type \in {"short_video", "live_stream"}
    /\ industry_filter \in {"none", "Retail"}
    /\ country = "none"
    /\ page = 1
    /\ page_size = 5
    /\ web = DefaultWeb
    /\ flaky = {}
    /\ absent \in SUBSET Lackable
    /\ format_filter = "none"
    /\ Unset

GroupRows ==
    {P(IntCell(1), Str(UrlA1), IntCell(10)), P(IntCell(1), Str(UrlA2), IntCell(5)),
     P(IntCell(2), Str(UrlB1), IntCell(10)),
     P(IntCell(3), Str(UrlA3), IntCell(5)), P(IntCell(2), Str(UrlNoScheme), IntCell(7)),
     P(IntCell(1), NaN, NaN)}

SheetAB ==
    <<S(IntCell(1), Str("Retail"), Str("Japan"), Str("A")),
      S(IntCell(2), Str("Food"), Str("Americas"), Str("B"))>>

SheetDup ==
    <<S(IntCell(1), Str("Retail"), Str("Japan"), Str("A")),
      S(IntCell(1), Str("Food"), Str("Americas"), Str("A")),
      S(IntCell(2), Str("Food"), Str("Americas"), Str("B"))>>

SheetSame ==
    <<S(IntCell(2), Str("Food"), Str("Americas"), Str("A")),
      S(IntCell(1), Str("Retail"), Str("Japan"), Str("A")),
      S(IntCell(3), NaN, NaN, NaN)>>

GroupSheets ==
    {[channel_col |-> TRUE, rows |-> SheetAB], [channel_col |-> FALSE, rows |-> SheetAB],
     [channel_col |-> TRUE, rows |-> SheetDup], [channel_col |-> TRUE, rows |-> SheetSame]}

PageSizes == {1, 2}

\* uploads of a few rows over a few channels and hosts, every page
InitSmallGroups ==
    /\ video_df \in SeqsUpTo(GroupRows, MaxGroupRows)
    /\ live_df = LiveTable
    /\ sheet_csv \in GroupSheets
    /\ case_type = "short_video"
    /\ industry_filter = "none"
    /\ country = "none"
    /\ page \in 1..MaxPage
    /\ page_size \in PageSizes
    /\ web = DefaultWeb
    /\ flaky = {}
    /\ absent = {}
    /\ format_filter = "none"
    /\ Unset

\* one channel with more rows than the cap, beside two small ones
CapTable ==
    <<P(IntCell(1), Str(UrlA1), IntCell(3)), P(IntCell(2), Str(UrlB1), IntCell(20)),
      P(IntCell(1), Str(UrlA2), IntCell(9)), P(IntCell(1), Str(UrlA3), IntCell(1)),
      P(IntCell(1), Str(UrlA1), IntCell(7)), P(IntCell(3), Str(UrlB2), IntCell(20)),
      P(IntCell(1), Str(UrlA2), IntCell(4))>>

InitCap ==
    /\ video_df = CapTable
    /\ live_df = LiveTable
    /\ sheet_csv \in GroupSheets
    /\ case_type = "short_video"
    /\ industry_filter = "none"
    /\ country = "none"
    /\ page \in 1..MaxPage
    /\ page_size \in PageSizes \cup {5}
    /\ web = DefaultWeb
    /\ flaky = {}
    /\ absent = {}
    /\ format_filter = "none"
    /\ Unset

\* 23 channels of one row each, pages of 5
BigCount == 23

BigName(i) == "ch" \o Digits[(i \div 10) + 1] \o Digits[(i % 10) + 1]

BigTable == [i \in 1..BigCount |-> P(IntCell(100 + i), Str(UrlA1), IntCell((i * 7) % BigCount))]

BigSheet ==
    [channel_col |-> TRUE,
     rows |-> [i \in 1..BigCount |-> S(IntCell(100 + i), Str("Retail"), Str("Japan"), Str(BigName(i)))]]

BigPages == {1, 2, 5, 6}

InitBig ==
    /\ video_df = BigTable
    /\ live_df = LiveTable
    /\ sheet_csv = BigSheet
    /\ case_type = "short_video"
    /\ industry_filter = "none"
    /\ country = "none"
    /\ page \in BigPages
    /\ page_size = 5
    /\ web = DefaultWeb
    /\ flaky = {}
    /\ absent = {}
    /\ format_filter = "none"
    /\ Unset

InitGroup == InitSmallGroups \/ InitCap \/ InitBig

\* tags a page may carry
GridTags ==
    {"<fw-embed-feed mode=\"grid\">",
     "<FW-EMBED-FEED\n  channel='c'\n  MODE='GRID' >"}

BareFeedTags == {"<fw-embed-feed channel=\"c\">", "<fw-embed-feed>"}

OtherFeedTags ==
    {"<fw-embed-feed mode=\"row\">",
     "<fw-embed-feed style=\"--thumbnail-w:9\">",
     "<fw-embed-feed thumbnail_style=\"dynamic\">",
     "<fw-embed-feed mode=\"pinned\">"}

FeedTags == GridTags \cup BareFeedTags \cup OtherFeedTags

OtherTags ==
    {"<div class=\"grid\">",
     "<fw-stories thumbnail_shape=\"circle\">",
     "<fw-stories thumbnail_shape=\"rectangle\">",
     "<fw-storyblock mode=\"pinned\">",
     "<fw-player>",
     "<fw-herounit>",
     "<fw-player-deck>",
     "<fw->"}

Tags == FeedTags \cup OtherTags

ClassifyTable == <<P(IntCell(1), Str(UrlA1), IntCell(10))>>

ClassifySheet ==
    [channel_col |-> TRUE, rows |-> <<S(IntCell(1), Str("Retail"), Str("Japan"), Str("A"))>>]

\* one row whose page is any document of up to MaxTags tags, a short
\* document under an error status, or no answer at all
InitClassify ==
    /\ video_df = ClassifyTable
    /\ live_df = LiveTable
    /\ sheet_csv = ClassifySheet
    /\ case_type = "short_video"
    /\ industry_filter = "none"
    /\ country = "none"
    /\ page = 1
    /\ page_size = 5
    /\ \E got \in {Timeout}
                   \cup {Response(200, parts) : parts \in SeqsUpTo(Tags, MaxTags)}
                   \cup {Response(404, parts) : parts \in SeqsUpTo(Tags, 1)} :
          web = [u \in {UrlA1} |-> got]
    /\ flaky = {}
    /\ absent = {}
    /\ format_filter = "none"
    /\ Unset

\* a page of five rows with five URLs, each site up or down
BatchTable ==
    <<P(IntCell(1), Str(UrlA1), IntCell(10)), P(IntCell(1), Str(UrlA2), IntCell(9)),
      P(IntCell(1), Str(UrlA3), IntCell(8)), P(IntCell(2), Str(UrlB1), IntCell(7)),
      P(IntCell(2), Str(UrlB2), IntCell(6))>>

\* a page on which UrlA1 stands on two rows
DupTable ==
    <<P(IntCell(1), Str(UrlA1), IntCell(10)), P(IntCell(1), Str(UrlA1), IntCell(9)),
      P(IntCell(2), Str(UrlB1), IntCell(7))>>

BatchUrls == {UrlA1, UrlA2, UrlA3, UrlB1, UrlB2}

SitePage(u) ==
    IF u = UrlA1 THEN Page(<<"<fw-embed-feed mode=\"grid\">">>)
    ELSE IF u = UrlA2 THEN Page(<<"<fw-player>">>)
    ELSE IF u = UrlA3 THEN Page(<<"<div class=\"grid\">">>)
    ELSE IF u = UrlB1 THEN Page(<<"<fw-embed-feed>">>)
    ELSE Page(<<"<fw-herounit>">>)

\* the sets of sites that are down during a batch
Outages == {{}, {UrlA1}, {UrlA2, UrlB2}, BatchUrls}

Sites(urls) ==
    {[u \in urls |-> IF u \in down THEN Timeout ELSE SitePage(u)] :
        down \in {out \cap urls : out \in Outages}}

InitBatch ==
    /\ \/ video_df = BatchTable /\ web \in Sites(BatchUrls) /\ flaky = {}
       \/ video_df = DupTable /\ web \in Sites({UrlA1, UrlB1}) /\ flaky \in SUBSET {UrlA1, UrlB1}
    /\ live_df = LiveTable
    /\ sheet_csv = [channel_col |-> TRUE, rows |-> SheetAB]
    /\ case_type = "short_video"
    /\ industry_filter = "none"
    /\ country = "none"
    /\ page = 1
    /\ page_size = 5
    /\ absent = {}
    /\ format_filter = "none"
    /\ Unset

\* the format filters of a request: none, the form's label for none, a
\* format some page has, a format no page has
FormatFilters == {"none", NoSelection, "Grid", "Story Block", "Carousel"}

\* a whole request: filters that match or match nothing, pages of one or of
\* all groups, sites up or down, every format filter
InitResponse ==
    /\ \/ video_df = BatchTable /\ web \in Sites(BatchUrls) /\ flaky = {}
       \/ video_df = DupTable /\ web \in Sites({UrlA1, UrlB1}) /\ flaky \in SUBSET {UrlA1}
    /\ live_df = LiveTable
    /\ sheet_csv = [channel_col |-> TRUE, rows |-> SheetAB]
    /\ case_type = "short_video"
    /\ industry_filter \in {"none", "Toys"}
    /\ country = "none"
    /\ page = 1
    /\ page_size \in {1, 5}
    /\ absent = {}
    /\ format_filter \in FormatFilters
    /\ Unset

\* a page with more rows than the executor has workers
PoolCount == 11

PoolUrl(i) == "https://p.com/" \o Digits[(i \div 10) + 1] \o Digits[(i % 10) + 1]

PoolTable ==
    [i \in 1..PoolCount |-> P(IntCell(1 + ((i - 1) \div 3)), Str(PoolUrl(i)), IntCell(i))]

PoolSheet ==
    [channel_col |-> TRUE,
     rows |-> [k \in 1..5 |-> S(IntCell(k), Str("Retail"), Str("Japan"), Str(BigName(k)))]]

InitPool ==
    /\ video_df = PoolTable
    /\ live_df = LiveTable
    /\ sheet_csv = PoolSheet
    /\ case_type = "short_video"
    /\ industry_filter = "none"
    /\ country = "none"
    /\ page = 1
    /\ page_size = 5
    /\ web = [u \in {PoolUrl(i) : i \in 1..PoolCount} |->
                IF u = PoolUrl(1) THEN Page(<<"<fw-player>">>) ELSE Timeout]
    /\ flaky = {}
    /\ absent = {}
    /\ format_filter = "none"
    /\ Unset

\* the territories a sheet may hold: the five region labels and an unmapped name
Territories == <<"Japan", "Americas", "Europe", "China/ANZ", "SEA/SA/MEA", "Atlantis">>

RegionVideo == [i \in DOMAIN Territories |-> P(IntCell(i), Str(UrlA1), IntCell(i))]

RegionSheet ==
    [channel_col |-> TRUE,
     rows |-> [i \in DOMAIN Territories |->
                 S(IntCell(i), Str("Retail"), Str(Territories[i]), Str(BigName(i)))]]

\* names the mapping does not hold: unknown, wrong case, padded, empty
UnmappedNames ==
    {"Atlantis", "System", "japan", "JAPAN", "united states", "americas", "Japan ", ""}

\* one upload and one sheet under every country name
InitRegions ==
    /\ video_df = RegionVideo
    /\ live_df = LiveTable
    /\ sheet_csv = RegionSheet
    /\ case_type = "short_video"
    /\ industry_filter = "none"
    /\ country \in MappedCountries \cup UnmappedNames
    /\ page = 1
    /\ page_size = 5
    /\ web = DefaultWeb
    /\ flaky = {}
    /\ absent = {}
    /\ format_filter = "none"
    /\ Unset

\* documents without a marker: empty, other tags, the prefix without a name
NoMarkerDocs == {"", "<div>", "plain text", "<fw-", "<fw->", "< fw-player>", "<fw", "<fwx>"}

\* malformed markup without a marker: an unclosed tag, stray brackets
MalformedNoMarker == {"<div class=", "</p><<>", "<div><span></div>"}

\* malformed markup in which a marker tag is never closed
UnclosedMarkerDocs == {"<fw-player", "<fw-embed-feed mode=\"grid\""}

\* malformed markup around a complete marker tag
MisnestedMarkerDocs == {"<div><fw-player></span>"}

MalformedDocs == MalformedNoMarker \cup UnclosedMarkerDocs \cup MisnestedMarkerDocs

\* a document, and the same document with the names in another letter case
CaseVariants ==
    {<<"<fw-embed-feed mode=\"grid\">", "<FW-EMBED-FEED MODE=\"grid\">">>,
     <<"<fw-stories thumbnail_shape=\"circle\">", "<Fw-Stories Thumbnail_Shape=\"circle\">">>,
     <<"<fw-herounit>", "<FW-HEROUNIT>">>}

\* a document, and the same document with the attributes of the tag permuted
OrderVariants ==
    {<<"<fw-embed-feed channel=\"c\" mode=\"grid\">", "<fw-embed-feed mode=\"grid\" channel=\"c\">">>,
     <<"<fw-embed-feed mode=\"row\" style=\"x-thumbnail\">",
       "<fw-embed-feed style=\"x-thumbnail\" mode=\"row\">">>,
     <<"<fw-embed-feed mode=\"grid\" title=\"a>b\">", "<fw-embed-feed title=\"a>b\" mode=\"grid\">">>}

\* a document, and the same document with line breaks between the attributes
BreakVariants ==
    {<<"<fw-embed-feed channel=\"c\" mode=\"grid\">", "<fw-embed-feed\nchannel=\"c\"\nmode=\"grid\">">>,
     <<"<fw-storyblock channel=\"c\" mode=\"pinned\">",
       "<fw-storyblock\nchannel=\"c\"\nmode=\"pinned\">">>}

Variants == CaseVariants \cup OrderVariants \cup BreakVariants

\* documents whose only marker is an fw-player-deck tag
PlayerDeckDocs == {"<fw-player-deck>", "<fw-player-deck channel=\"c\">", "<div><fw-player-deck></div>"}

MarkupDocs ==
    NoMarkerDocs \cup MalformedDocs \cup PlayerDeckDocs \cup Tags
    \cup {v[1] : v \in Variants} \cup {v[2] : v \in Variants}

\* one row whose page is one of the documents, or no answer at all
InitMarkup ==
    /\ video_df = ClassifyTable
    /\ live_df = LiveTable
    /\ sheet_csv = ClassifySheet
    /\ case_type = "short_video"
    /\ industry_filter = "none"
    /\ country = "none"
    /\ page = 1
    /\ page_size = 5
    /\ \E got \in {Timeout} \cup {Page(<<doc>>) : doc \in MarkupDocs} :
          web = [u \in {UrlA1} |-> got]
    /\ flaky = {}
    /\ absent = {}
    /\ format_filter = "none"
    /\ Unset

\* the groups of the table that is paged through, and the pages a client asks for
PagingGroups == 5

PageCap == 6

\* one row per channel, no two channels with the same views
PagingTable == [i \in 1..PagingGroups |-> P(IntCell(i), Str(UrlA1), IntCell(20 - i))]

\* the page and page_size fields of the form are passed through int() only
InitPaging ==
    /\ video_df = PagingTable
    /\ live_df = LiveTable
    /\ sheet_csv = PoolSheet
    /\ case_type = "short_video"
    /\ industry_filter = "none"
    /\ country = "none"
    /\ page \in {-1, 0, 1}
    /\ page_size \in {-1, 0, 1, 2, 3}
    /\ web = DefaultWeb
    /\ flaky = {}
    /\ absent = {}
    /\ format_filter = "none"
    /\ Unset

Init == InitMerge \/ InitColumns \/ InitRegions \/ InitResponse \/ InitPaging \/ InitMarkup \/ InitGroup \/ InitClassify \/ InitBatch \/ InitPool

(***************************************************************************)
(* Actions                                                                 *)
(***************************************************************************)
Inputs == <<video_df, live_df, sheet_csv, case_type, industry_filter, country,
            page, page_size, web, flaky, absent, format_filter>>

Answers == <<response, api_response>>

Pool == <<pending, next_task, in_flight, returned>>

\* line 579
\* a sheet without Business Id makes get_google_sheet_data return None
\* (lines 125, 138-141), and process_data answers 500 (lines 581-583)
GetGoogleSheetData ==
    /\ pc = "request"
    /\ IF <<"sheet", "Business Id">> \in absent
       THEN /\ sheet_df' = None
            /\ pc' = "error"
       ELSE /\ sheet_df' = get_google_sheet_data(sheet_csv)
            /\ pc' = "sheet"
    /\ UNCHANGED <<Inputs, Answers, merged_df, result_df, pagination_result,
                   url_to_flag, url_to_format, Pool>>

\* line 586
\* merge_data catches whatever is raised and returns None (lines 276-279),
\* and process_data answers 500 (lines 588-590)
MergeData ==
    /\ pc = "sheet"
    /\ IF MissingColumns(absent, case_type) # {}
       THEN /\ merged_df' = None
            /\ result_df' = None
            /\ pc' = "error"
       ELSE /\ merged_df' = Merged(video_df, live_df, sheet_df, case_type)
            /\ result_df' = merge_data(video_df, live_df, sheet_df, case_type,
                                       industry_filter, country)
            /\ pc' = "merged"
    /\ UNCHANGED <<Inputs, Answers, sheet_df, pagination_result, url_to_flag, url_to_format, Pool>>

\* lines 593-597
GroupByDomainAndPaginate ==
    /\ pc = "merged"
    /\ IF GroupingFails(result_df)
       THEN /\ pagination_result' = None
            /\ pc' = "error"
       ELSE /\ \E ranked \in RankOrders(Summaries(result_df)) :
                 pagination_result' =
                     group_by_domain_and_paginate(result_df, ranked, page, page_size)
            /\ pc' = "paginated"
    /\ UNCHANGED <<Inputs, Answers, sheet_df, merged_df, result_df, url_to_flag, url_to_format, Pool>>

Frames == <<sheet_df, merged_df, result_df, pagination_result>>

UrlOf(i) == pagination_result.detailed_data[i].url.s

\* lines 617-622: one check submitted for every row of detailed_data; the
\* executor queues them in this order
SubmitChecks ==
    /\ pc = "paginated"
    /\ pending' = DOMAIN pagination_result.detailed_data
    /\ next_task' = 1
    /\ in_flight' = {}
    /\ returned' = EmptyMap
    /\ url_to_flag' = EmptyMap
    /\ url_to_format' = EmptyMap
    /\ pc' = IF pagination_result.detailed_data = <<>> THEN "checked" ELSE "checking"
    /\ UNCHANGED <<Inputs, Answers, Frames>>

\* a worker that ignores the size of the pool
StartFetchUncapped ==
    /\ pc = "checking"
    /\ next_task <= Len(pagination_result.detailed_data)
    /\ in_flight' = in_flight \cup {next_task}
    /\ next_task' = next_task + 1
    /\ UNCHANGED <<pc, Inputs, Answers, Frames, url_to_flag, url_to_format, pending, returned>>

\* line 619: one of at most max_workers workers takes the next queued check
StartFetch ==
    /\ pc = "checking"
    /\ next_task <= Len(pagination_result.detailed_data)
    /\ Cardinality(in_flight) < max_workers
    /\ in_flight' = in_flight \cup {next_task}
    /\ next_task' = next_task + 1
    /\ UNCHANGED <<pc, Inputs, Answers, Frames, url_to_flag, url_to_format, pending, returned>>

\* a worker that writes its result into the maps itself
FinishFetchWriting ==
    /\ pc = "checking"
    /\ UNCHANGED <<pc, Inputs, Answers, Frames, pending, next_task>>
    /\ \E i \in in_flight :
         /\ in_flight' = in_flight \ {i}
         /\ \E got \in Outcomes(UrlOf(i)) :
               /\ returned' = Put(returned, i, check_url_wrapper(UrlOf(i), got))
               /\ url_to_flag' = Put(url_to_flag, UrlOf(i), returned'[i].has_fw_tag)
               /\ url_to_format' = Put(url_to_format, UrlOf(i), returned'[i].format_name)

\* lines 607-614: a worker's check_url_wrapper returns; the result stays in
\* its future
FinishFetch ==
    /\ pc = "checking"
    /\ UNCHANGED <<pc, Inputs, Answers, Frames, url_to_flag, url_to_format, pending, next_task>>
    /\ \E i \in in_flight :
         /\ in_flight' = in_flight \ {i}
         /\ \E got \in Outcomes(UrlOf(i)) :
               returned' = Put(returned, i, check_url_wrapper(UrlOf(i), got))

\* a collector that records nothing for a check that failed
CollectResultSkippingFailures ==
    /\ pc = "checking"
    /\ \E i \in pending \cap DOMAIN returned :
         /\ IF returned[i].has_fw_tag
            THEN /\ url_to_flag' = Put(url_to_flag, returned[i].url, returned[i].has_fw_tag)
                 /\ url_to_format' = Put(url_to_format, returned[i].url, returned[i].format_name)
            ELSE UNCHANGED <<url_to_flag, url_to_format>>
         /\ pending' = pending \ {i}
         /\ pc' = IF pending = {i} THEN "checked" ELSE "checking"
    /\ UNCHANGED <<Inputs, Answers, Frames, next_task, in_flight, returned>>

\* lines 626-629: as_completed hands over a finished check, in any order, and
\* the request thread writes its result into the two maps
CollectResult ==
    /\ pc = "checking"
    /\ \E i \in pending \cap DOMAIN returned :
         /\ url_to_flag' = Put(url_to_flag, returned[i].url, returned[i].has_fw_tag)
         /\ url_to_format' = Put(url_to_format, returned[i].url, returned[i].format_name)
         /\ pending' = pending \ {i}
         /\ pc' = IF pending = {i} THEN "checked" ELSE "checking"
    /\ UNCHANGED <<Inputs, Answers, Frames, next_task, in_flight, returned>>

\* lines 635-693: the maps are read for the rows, the rows are filtered and
\* the answer is built
Respond ==
    /\ pc = "checked"
    /\ IF pagination_result.page_size = 0
       THEN \* line 689: the number of pages logged is a division by page_size
            /\ response' = response
            /\ pc' = "error"
       ELSE /\ response' = Result(pagination_result,
                                  FilteredData(pagination_result.detailed_data,
                                               url_to_flag, url_to_format, format_filter))
            /\ pc' = "responded"
    /\ UNCHANGED <<Inputs, Frames, Pool, url_to_flag, url_to_format, api_response>>

\* lines 552-557: the client asks for the next page of the same search when
\* the answer says has_next: process_data again with page + 1
(***************************************************************************)
(* GET /api/check-fw-tag                                                   *)
(***************************************************************************)
\* the characters of the URLs used here that quote() replaces
PercentCode(c) ==
    CASE c = ":" -> "%3A"
      [] c = "/" -> "%2F"
      [] c = "?" -> "%3F"
      [] c = "=" -> "%3D"
      [] c = "&" -> "%26"
      [] OTHER   -> "%20"

\* urllib.parse.quote(url, safe=''): letters, digits and _ . - ~ stay
RECURSIVE quote_from(_, _)
quote_from(url, i) ==
    IF i > Len(url) THEN ""
    ELSE LET c == CharAt(url, i)
         IN  (IF IsWordChar(c) \/ c \in {".", "~"} THEN c ELSE PercentCode(c))
                 \o quote_from(url, i + 1)

quote(url) == quote_from(url, 1)

\* the values of the return statements of check_fw_tag_in_url, in order
ReturnedValues(got) ==
    LET r == check_fw_tag_in_url(got)
    IN  <<r.has_fw_tag, r.html_content, r.format_name>>

\* has_fw_tag, html_content = values: ValueError unless there are two
Unpack2(values) ==
    IF Len(values) = 2
    THEN [raised |-> FALSE, has_fw_tag |-> values[1], html_content |-> values[2]]
    ELSE [raised |-> TRUE,
          message |-> IF Len(values) > 2 THEN "too many values to unpack (expected 2)"
                      ELSE "not enough values to unpack (expected 2)"]

\* request.args.get('url'): None when the parameter is missing
UrlArgs == {None, Str("")} \cup {Str(u) : u \in DOMAIN web}

\* the answer of the handler to a request with this url parameter
api_check_fw_tag(url) ==
    IF IsNull(url) \/ url.s = ""
    THEN [url |-> url, status |-> 400, body |-> [error |-> "URL parameter is required"]]
    ELSE LET unpacked == Unpack2(ReturnedValues(Fetch(url.s)))
         IN  IF unpacked.raised
             THEN [url |-> url, status |-> 500, body |-> [error |-> unpacked.message]]
             ELSE [url    |-> url,
                   status |-> 200,
                   body   |-> [has_fw_tag     |-> unpacked.has_fw_tag,
                               screenshot_url |->
                                   IF unpacked.has_fw_tag
                                   THEN Str("https://shot.screenshotapi.net/screenshot?url="
                                            \o quote(url.s))
                                   ELSE None]]

ApiCheckFwTag ==
    /\ api_response = None
    /\ \E url \in UrlArgs : api_response' = api_check_fw_tag(url)
    /\ UNCHANGED <<pc, Inputs, response, Frames, Pool, url_to_flag, url_to_format>>

RequestNextPage ==
    /\ pc \in {"paginated", "responded"}
    /\ pagination_result.has_next
    /\ page < PageCap
    /\ page' = page + 1
    /\ pc' = "request"
    /\ sheet_df' = None
    /\ merged_df' = None
    /\ result_df' = None
    /\ pagination_result' = None
    /\ url_to_flag' = EmptyMap
    /\ url_to_format' = EmptyMap
    /\ pending' = {}
    /\ next_task' = 1
    /\ in_flight' = {}
    /\ returned' = EmptyMap
    /\ response' = None
    /\ UNCHANGED <<video_df, live_df, sheet_csv, case_type, industry_filter, country,
                   page_size, web, flaky, absent, format_filter, api_response>>

NextMerge == GetGoogleSheetData \/ MergeData

\* a search paged through; the checks of the URLs are left out, they do not
\* change what the next page is
NextPaging == GetGoogleSheetData \/ MergeData \/ GroupByDomainAndPaginate \/ RequestNextPage

NextGroup == GetGoogleSheetData \/ MergeData \/ GroupByDomainAndPaginate

Next ==
    \/ GetGoogleSheetData
    \/ MergeData
    \/ GroupByDomainAndPaginate
    \/ SubmitChecks
    \/ StartFetch
    \/ FinishFetch
    \/ CollectResult
    \/ Respond

SpecMerge == InitMerge /\ [][NextMerge]_vars

SpecColumns == InitColumns /\ [][NextMerge]_vars

SpecRegions == InitRegions /\ [][NextMerge]_vars

SpecGroup == InitGroup /\ [][NextGroup]_vars

SpecResponse == InitResponse /\ [][Next]_vars

SpecPaging == InitPaging /\ [][NextPaging]_vars

SpecMarkup == InitMarkup /\ [][Next]_vars

\* requests to /api/check-fw-tag, on the same sites
SpecApi == InitMarkup /\ [][ApiCheckFwTag]_vars

SpecClassify == InitClassify /\ [][Next]_vars

\* the request thread submits the checks it has; a worker that can take a
\* check takes one; every GET ends (timeout=10)
PoolFairness ==
    /\ WF_vars(SubmitChecks)
    /\ WF_vars(StartFetch)
    /\ WF_vars(FinishFetch)

\* as_completed hands over what has finished
Fairness == PoolFairness /\ WF_vars(CollectResult)

\* the executor observed alone: the collector reads finished results only and
\* changes nothing a worker reads
NextPool ==
    \/ GetGoogleSheetData
    \/ MergeData
    \/ GroupByDomainAndPaginate
    \/ SubmitChecks
    \/ StartFetch
    \/ FinishFetch

SpecPool == InitPool /\ [][NextPool]_vars /\ PoolFairness

SpecBatch == InitBatch /\ [][Next]_vars /\ Fairness

Spec == Init /\ [][Next]_vars

(***************************************************************************)
(* Properties of merge_data                                                *)
(***************************************************************************)
AfterMerge == pc \in {"merged", "paginated", "checking", "checked", "error"}

MainRows == SelectMain(video_df, live_df, case_type)

\* the number of reference rows whose normalised key is that of performance row i
FanOut(i) ==
    Cardinality({j \in DOMAIN sheet_csv.rows :
                    to_numeric(sheet_csv.rows[j].key) = to_numeric(MainRows[i].key)})

ResultRowsOf(i) == {r \in DOMAIN result_df.rows : result_df.rows[r].src = i}

NoFilter == Industries(industry_filter) = {} /\ country = "none"

\* C1: "42", 42 and 42.0 normalise to 42, None and "N/A" to null, and a
\* performance row is joined with a reference row exactly when both keys
\* normalise to the same number.
C1_MatchExactlyOnSameNumber ==
    AfterMerge =>
        /\ to_numeric(Str("42")) = Num(420)
        /\ to_numeric(IntCell(42)) = Num(420)
        /\ to_numeric(FloatCell(420)) = Num(420)
        /\ to_numeric(NaN) = NaN
        /\ to_numeric(Str("N/A")) = NaN
        /\ \A i \in DOMAIN MainRows, j \in DOMAIN sheet_csv.rows :
              (\E r \in DOMAIN merged_df : merged_df[r].src = i /\ merged_df[r].ref = j)
              <=> /\ to_numeric(MainRows[i].key).t = "num"
                  /\ to_numeric(MainRows[i].key) = to_numeric(sheet_csv.rows[j].key)

\* C2: with no filter active every performance row of the selected table
\* yields exactly max(1, k) result rows, k being the number of reference rows
\* with the same normalised key; a row with k = 0 is kept once, with empty
\* industry, region and channel name, and duplicate reference keys fan out.
C2_LeftJoinFanOut ==
    (AfterMerge /\ NoFilter) =>
        /\ Len(result_df.rows) >= Len(MainRows)
        /\ \A i \in DOMAIN MainRows :
              /\ Cardinality(ResultRowsOf(i)) = (IF FanOut(i) = 0 THEN 1 ELSE FanOut(i))
              /\ FanOut(i) = 0 =>
                    \A r \in ResultRowsOf(i) :
                        /\ result_df.rows[r].industry = Str("")
                        /\ result_df.rows[r].region = Str("")
                        /\ result_df.rows[r].channel = Str("")

C2_Witness ==
    /\ AfterMerge /\ NoFilter
    /\ \E i \in DOMAIN MainRows : FanOut(i) = 0
    /\ \E i \in DOMAIN MainRows : FanOut(i) = 2 /\ to_numeric(MainRows[i].key).t = "num"

\* the filter predicate of C3 on a merged record
IndustryKeeps(m) ==
    \/ industry_filter \in {"none", ""}
    \/ Industries(industry_filter) = {}
    \/ m.industry.t = "str" /\ m.industry.s \in Industries(industry_filter)

CountryKeeps(m) ==
    \/ country = "none"
    \/ m.region.t = "str" /\ m.region.s \in Range(get_country_regions(country))

KeptRecords == SelectSeq(merged_df, LAMBDA m : IndustryKeeps(m) /\ CountryKeeps(m))

\* C3: the filter stage keeps a merged record exactly when the industry
\* filter is none or empty or names the record's industry (several names are
\* OR'd), and the country is none or the record's region is one of
\* get_country_regions(country); the kept records are in merged order and
\* carry the merged record's values.
C3_FilterKeepsExactly ==
    AfterMerge =>
        result_df.rows = [r \in DOMAIN KeptRecords |-> Project(KeptRecords[r])]

C3_Witness ==
    /\ AfterMerge
    /\ Cardinality(Industries(industry_filter)) >= 2
    /\ country = "United States"
    /\ result_df.rows # <<>>
    /\ \E m \in Range(merged_df) : IndustryKeeps(m) /\ ~CountryKeeps(m)
    /\ \E m \in Range(merged_df) : ~IndustryKeeps(m) /\ CountryKeeps(m)

(***************************************************************************)
(* Properties of group_by_domain_and_paginate                              *)
(***************************************************************************)
AfterGroup == pc \in {"paginated", "checking", "checked"}

Ranked == pagination_result.channel_summary

GroupRowsOf(k) == RowsOf(result_df.rows, pagination_result.group_column, k)

RowId(r) == <<r.src, r.ref>>

Min(a, b) == IF a <= b THEN a ELSE b

\* C4, as claimed: the set is grouped by channel name only when every record
\* carries a channel name, and by hostname as soon as one record lacks it.
C4_HostnameWhenAnyChannelMissing ==
    AfterGroup =>
        pagination_result.group_column =
            (IF /\ result_df.channel_col
                /\ \A i \in DOMAIN result_df.rows : result_df.rows[i].channel # Str("")
             THEN "channel" ELSE "domain")

\* C4, amended: the grouping key is chosen once per invocation, by whether the
\* record set has a channel name column: with the column every record is
\* grouped by its channel name, the records without one under the empty
\* name; without the column every record is grouped by hostname.
C4_GroupColumnByColumnPresence ==
    AfterGroup =>
        /\ pagination_result.group_column =
              (IF result_df.channel_col THEN "channel" ELSE "domain")
        /\ {Ranked[g].key : g \in DOMAIN Ranked} =
              {(IF result_df.channel_col THEN result_df.rows[i].channel
                ELSE result_df.rows[i].domain) : i \in DOMAIN result_df.rows} \ {None}

C4_Witness ==
    /\ AfterGroup
    /\ result_df.channel_col
    /\ \E i, j \in DOMAIN result_df.rows :
          /\ result_df.rows[i].channel = Str("")
          /\ result_df.rows[j].channel # Str("")
          /\ result_df.rows[i].domain # result_df.rows[j].domain
    /\ \E g \in DOMAIN Ranked : Ranked[g].key = Str("")

\* the view counts of rows added as numbers, a missing count adding nothing
RECURSIVE NumericSum(_)
NumericSum(rows) ==
    IF rows = <<>> THEN 0
    ELSE (IF Head(rows).views.t = "int" THEN Head(rows).views.v ELSE 0)
         + NumericSum(Tail(rows))

\* C5: for every group, total_views is the numeric sum of the view counts of
\* the group's rows, url_count the number of its rows, industry and region
\* those of its first row, also after the fill of missing values with ''.
C5_NumericAggregates ==
    AfterGroup =>
        \A g \in DOMAIN Ranked :
            /\ Ranked[g].total_views = IntCell(NumericSum(GroupRowsOf(Ranked[g].key)))
            /\ Ranked[g].url_count = Len(GroupRowsOf(Ranked[g].key))
            /\ Ranked[g].industry = GroupRowsOf(Ranked[g].key)[1].industry
            /\ Ranked[g].region = GroupRowsOf(Ranked[g].key)[1].region

\* the position in the input of the first row of a group
FirstRowOf(k) ==
    CHOOSE i \in DOMAIN result_df.rows :
        /\ GroupKey(result_df.rows[i], pagination_result.group_column) = k
        /\ \A j \in 1..(i - 1) :
              GroupKey(result_df.rows[j], pagination_result.group_column) # k

\* C6, as claimed: descending total_views, and groups with equal total_views
\* in the order in which their first rows come in the input.
C6_TiesInEncounterOrder ==
    AfterGroup =>
        \A a, b \in DOMAIN Ranked :
            a < b =>
                /\ ~CellLess(Ranked[a].total_views, Ranked[b].total_views)
                /\ Ranked[a].total_views = Ranked[b].total_views
                      => FirstRowOf(Ranked[a].key) < FirstRowOf(Ranked[b].key)

\* C6, amended: the ranked list holds every group once, in descending order
\* of total_views; the order among groups of equal total_views is left open.
C6_RankedDescending ==
    AfterGroup =>
        /\ {Ranked[g] : g \in DOMAIN Ranked} = Summaries(result_df)
        /\ Len(Ranked) = Cardinality(Summaries(result_df))
        /\ \A a, b \in DOMAIN Ranked :
              a < b => ~CellLess(Ranked[a].total_views, Ranked[b].total_views)

C6_Witness ==
    /\ AfterGroup
    /\ Len(Ranked) >= 3
    /\ \E a \in DOMAIN Ranked : a > 1 /\ CellLess(Ranked[a].total_views, Ranked[1].total_views)
    /\ \E a, b \in DOMAIN Ranked :
          /\ a < b
          /\ Ranked[a].total_views = Ranked[b].total_views
          /\ FirstRowOf(Ranked[a].key) > FirstRowOf(Ranked[b].key)

\* C7: for page >= 1 and page_size >= 1 the page holds the ranked groups at
\* positions (page-1)*page_size+1 .. min(page*page_size, total), none past the
\* end, and has_next is true exactly when page*page_size < total.
C7_PageSlice ==
    (AfterGroup /\ page >= 1 /\ page_size >= 1) =>
        LET total == Len(Ranked)
            lo    == (page - 1) * page_size + 1
            hi    == Min(page * page_size, total)
        IN  /\ pagination_result.total_domains = total
            /\ pagination_result.paginated_channels =
                  [k \in 1..(IF lo > hi THEN 0 ELSE hi - lo + 1) |-> Ranked[lo + k - 1]]
            /\ pagination_result.has_next = (page * page_size < total)

C7_Witness ==
    /\ AfterGroup
    /\ Len(Ranked) = 23 /\ page = 5 /\ page_size = 5
    /\ Len(pagination_result.paginated_channels) = 3
    /\ pagination_result.paginated_channels[1] = Ranked[21]
    /\ ~pagination_result.has_next

\* C8: for every group on the page the detail rows are its min(3, n) rows of
\* highest view count, in descending order of view count and next to each
\* other; no row of a group outside the page is returned.
C8_TopThreePerGroup ==
    AfterGroup =>
        LET det   == pagination_result.detailed_data
            col   == pagination_result.group_column
            paged == pagination_result.paginated_channels
            keys  == {paged[g].key : g \in DOMAIN paged}
        IN  /\ \A i \in DOMAIN det : GroupKey(det[i], col) \in keys
            /\ \A i, j \in DOMAIN det : i # j => RowId(det[i]) # RowId(det[j])
            /\ \A k \in keys :
                  LET all == GroupRowsOf(k)
                      idx == {i \in DOMAIN det : GroupKey(det[i], col) = k}
                  IN  /\ Cardinality(idx) = Min(3, Len(all))
                      /\ \A i \in idx : det[i] \in Range(all)
                      /\ \A i, j \in idx : \A m \in i..j : m \in idx
                      /\ \A i, j \in idx : i < j => ~CellLess(det[i].views, det[j].views)
                      /\ \A r \in Range(all) :
                            (\A i \in idx : RowId(det[i]) # RowId(r))
                            => \A i \in idx : ~CellLess(det[i].views, r.views)

C8_Witness ==
    /\ AfterGroup
    /\ Len(pagination_result.paginated_channels) >= 2
    /\ \E g \in DOMAIN pagination_result.paginated_channels :
          LET k   == pagination_result.paginated_channels[g].key
              det == SelectSeq(pagination_result.detailed_data,
                               LAMBDA r : GroupKey(r, pagination_result.group_column) = k)
          IN  /\ Len(GroupRowsOf(k)) = 5
              /\ Len(det) = 3
              /\ det[1].views = IntCell(9) /\ det[2].views = IntCell(7) /\ det[3].views = IntCell(4)

(***************************************************************************)
(* Properties of the classification                                        *)
(***************************************************************************)
Checked == pc = "checked"

RECURSIVE Reverse(_)
Reverse(s) == IF s = <<>> THEN <<>> ELSE Reverse(Tail(s)) \o <<Head(s)>>

RulesOf(parts) ==
    {k \in DOMAIN format_patterns : Search(format_patterns[k].pattern, Join(parts))}

\* C9: the classification of a document has three outcomes: marker and the
\* format of the first rule of the list that matches anywhere in the
\* document, wherever its tags stand; marker and Unknown when no rule matches
\* but a marker is there; no marker and Unknown otherwise.  A format is never
\* reported without the marker.
C9_ThreeOutcomes ==
    Checked =>
        \A u \in DOMAIN url_to_flag :
            /\ url_to_format[u] # "Unknown" => url_to_flag[u]
            /\ IF Fetch(u).kind = "exception"
               THEN ~url_to_flag[u] /\ url_to_format[u] = "Unknown"
               ELSE LET parts == Fetch(u).parts
                        rules == RulesOf(parts)
                    IN  IF rules # {}
                        THEN /\ url_to_flag[u]
                             /\ \A k \in rules :
                                   (\A o \in rules : k <= o)
                                   => url_to_format[u] = format_patterns[k].format
                             /\ RulesOf(Reverse(parts)) = rules
                        ELSE IF Search(marker_pattern, Join(parts))
                        THEN url_to_flag[u] /\ url_to_format[u] = "Unknown"
                        ELSE ~url_to_flag[u] /\ url_to_format[u] = "Unknown"

C9_Witness ==
    /\ Checked
    /\ Fetch(UrlA1).kind = "response"
    /\ Fetch(UrlA1).parts = <<"<fw-player>", "<fw-stories thumbnail_shape=\"circle\">">>
    /\ url_to_flag[UrlA1]
    /\ url_to_format[UrlA1] = "Circle Stories"

SpecificFeedFormats == {"Horizontal Carousel", "Dynamic Carousel", "Grid", "Carousel"}

C17_MissingColumnSurfaced ==
    (sheet_df # None /\ pc # "sheet" /\ MissingColumns(absent, case_type) # {})
        => result_df \in {[t |-> "error", column |-> col[2]] :
                              col \in MissingColumns(absent, case_type)}

\* the performance rows whose Business Id normalises to null
NullKeyed == {i \in DOMAIN MainRows : IsNull(to_numeric(MainRows[i].key))}

\* C18: a performance row whose key is absent or not a number is joined with
\* no reference row, not even with one whose own key is absent or not a
\* number; it is carried once, with empty industry, region and channel name.
C18_NullKeyNeverMatches ==
    (AfterMerge /\ NoFilter) =>
        \A i \in NullKeyed :
            /\ \A r \in DOMAIN merged_df : merged_df[r].src = i => merged_df[r].ref = 0
            /\ Cardinality(ResultRowsOf(i)) = 1
            /\ \A r \in ResultRowsOf(i) :
                  /\ result_df.rows[r].industry = Str("")
                  /\ result_df.rows[r].region = Str("")
                  /\ result_df.rows[r].channel = Str("")

(***************************************************************************)
(* Properties of the region resolver                                       *)
(***************************************************************************)
\* the territories of the rows merge_data returned
TerritoriesKept == {result_df.rows[r].region.s : r \in DOMAIN result_df.rows}

\* the territories of the sheet that one of the labels names
TerritoriesNamed(labels) == {t \in Range(Territories) : t \in Range(labels)}

\* C19: get_country_regions gives the list of the mapping for a name the
\* mapping holds (Japan gives Japan, United States gives Americas) and the
\* name itself, unchanged, for any other name (Atlantis, and a mapped name
\* in another case); every list of the mapping has exactly one region;
\* resolving a label it returned gives that label again; and the country
\* filter of merge_data keeps the rows of these regions.
C19_RegionResolution ==
    (pc = "merged") =>
        LET regions == get_country_regions(country)
        IN  /\ country \in DOMAIN COUNTRY_TO_REGION_MAPPING
                  => regions = COUNTRY_TO_REGION_MAPPING[country]
            /\ country \notin DOMAIN COUNTRY_TO_REGION_MAPPING => regions = <<country>>
            /\ country = "Japan" => regions = <<"Japan">>
            /\ country = "United States" => regions = <<"Americas">>
            /\ country = "Atlantis" => regions = <<"Atlantis">>
            /\ country \in {"japan", "JAPAN", "united states", "americas", "Japan "}
                  => regions = <<country>>
            /\ \A c \in DOMAIN COUNTRY_TO_REGION_MAPPING :
                  Len(COUNTRY_TO_REGION_MAPPING[c]) = 1
            /\ \A k \in DOMAIN regions : get_country_regions(regions[k]) = <<regions[k]>>
            /\ TerritoriesKept = TerritoriesNamed(regions)

C19_Witness ==
    /\ pc = "merged"
    /\ country = "United States"
    /\ TerritoriesKept = {"Americas"}

\* C20: on the merged records, the industry filter followed by the country
\* filter keeps the same records as the country filter followed by the
\* industry filter, and these are the records merge_data returns.
C20_FiltersCommute ==
    AfterMerge =>
        /\ CountryFilter(IndustryFilter(merged_df, industry_filter), country)
              = IndustryFilter(CountryFilter(merged_df, country), industry_filter)
        /\ LET kept == IndustryFilter(CountryFilter(merged_df, country), industry_filter)
           IN  result_df.rows = [r \in DOMAIN kept |-> Project(kept[r])]

C20_Witness ==
    /\ AfterMerge
    /\ IndustryFilter(merged_df, industry_filter) # merged_df
    /\ CountryFilter(merged_df, country) # merged_df
    /\ IndustryFilter(merged_df, industry_filter) # CountryFilter(merged_df, country)
    /\ CountryFilter(IndustryFilter(merged_df, industry_filter), country)
          # IndustryFilter(merged_df, industry_filter)
    /\ result_df.rows # <<>>

(***************************************************************************)
(* Properties of the batch of URL checks                                   *)
(***************************************************************************)
Detail == pagination_result.detailed_data

Submitted == {UrlOf(i) : i \in DOMAIN Detail}

Failed(got) == got.kind = "exception"

\* the entry of u in the two maps is what check_fw_tag_in_url makes of got
RecordedAs(u, got) ==
    /\ url_to_flag[u] = check_fw_tag_in_url(got).has_fw_tag
    /\ url_to_format[u] = check_fw_tag_in_url(got).format_name

BatchIsolated ==
    /\ pc # "error"
    /\ Checked =>
          /\ DOMAIN url_to_flag = Submitted
          /\ DOMAIN url_to_format = Submitted
          /\ \A u \in Submitted :
                /\ (\A got \in Outcomes(u) : Failed(got))
                      => ~url_to_flag[u] /\ url_to_format[u] = "Unknown"
                /\ \E got \in Outcomes(u) : RecordedAs(u, got)

\* C11: a batch in which some fetches fail or time out still completes; the
\* maps then hold an entry for every URL submitted, a URL whose fetches fail
\* is recorded without marker and with format Unknown, and every other URL
\* is recorded with the classification of its own page.
C11_FaultIsolation ==
    /\ [](BatchIsolated)
    /\ (pc = "paginated") ~> Checked

C11_Witness ==
    /\ Checked
    /\ Cardinality(Submitted) = 5
    /\ Cardinality({u \in Submitted : Failed(Fetch(u))}) = 2
    /\ Cardinality(DOMAIN url_to_flag) = 5
    /\ \E u \in Submitted : url_to_flag[u] /\ url_to_format[u] = "Grid"

Queued == next_task..Len(Detail)

\* C12: at every moment of a batch at most max_workers (10) fetches are in
\* flight however many URLs were submitted; a queued URL is started only when
\* fewer than max_workers fetches are running, in queue order; and every
\* queued URL is eventually fetched.
C12_AtMostTenInFlight ==
    /\ [](Cardinality(in_flight) <= max_workers)
    /\ [][next_task' # next_task =>
             /\ Cardinality(in_flight) < max_workers
             /\ next_task' = next_task + 1
             /\ in_flight' = in_flight \cup {next_task}]_vars
    /\ (pc = "checking") ~> (pc = "checking" /\ DOMAIN returned = DOMAIN Detail)

C12_Witness ==
    /\ pc = "checking"
    /\ Len(Detail) > max_workers
    /\ Cardinality(in_flight) = max_workers
    /\ Queued # {}

\* the content of the maps had the results been collected in row order
LastRowOf(u) == CHOOSE i \in DOMAIN Detail : UrlOf(i) = u /\ \A j \in DOMAIN Detail : UrlOf(j) = u => j <= i

\* C13: the content of the two maps depends on the fetch outcomes only, not
\* on the order in which the checks complete: whatever the order, the maps are
\* those that collecting the same results in row order gives.
C13_OrderIndependent ==
    Checked =>
        \A u \in Submitted :
            /\ url_to_flag[u] = returned[LastRowOf(u)].has_fw_tag
            /\ url_to_format[u] = returned[LastRowOf(u)].format_name

\* a step of a worker: a check is taken from the queue or its result returned
WorkerStep == in_flight' # in_flight \/ returned' # returned \/ next_task' # next_task

\* a step that writes the result of check i into the two maps
WritesResultOf(i) ==
    /\ i \in DOMAIN returned
    /\ url_to_flag' = Put(url_to_flag, UrlOf(i), returned[i].has_fw_tag)
    /\ url_to_format' = Put(url_to_format, UrlOf(i), returned[i].format_name)
    /\ pending' = pending \ {i}
    /\ UNCHANGED <<next_task, in_flight, returned>>

\* C14: the fetch tasks share no state but the two result maps, and these are
\* written by the collecting thread only: a worker's step changes nothing but
\* the executor's record of its own check, and every change of the maps or of
\* the set of checks still to collect is one write per map for one finished
\* check, keyed by its URL, made in a step in which no worker takes part.
C14_WritesByCollectorOnly ==
    [][pc = "checking" =>
          /\ WorkerStep => UNCHANGED <<url_to_flag, url_to_format, pending, Frames, Inputs>>
          /\ (url_to_flag' # url_to_flag \/ url_to_format' # url_to_format \/ pending' # pending)
                => \E i \in pending : WritesResultOf(i)]_vars

C14_Witness ==
    /\ pc = "checking"
    /\ Cardinality(DOMAIN url_to_flag) >= 2
    /\ in_flight # {}
    /\ Queued # {}

Started == 1..(next_task - 1)

\* C15: within one batch each distinct URL is fetched at most once, also when
\* it stands on several detail rows.
C15_EachUrlFetchedOnce ==
    pc \in {"checking", "checked"} =>
        \A u \in Submitted : Cardinality({i \in Started : UrlOf(i) = u}) <= 1

\* C16: a response with a status outside 200..299 is recorded like a failed
\* fetch, without marker and with format Unknown, whatever its body holds.
C16_ErrorStatusIsFailure ==
    Checked =>
        \A u \in Submitted :
            (Fetch(u).kind = "response" /\ Fetch(u).status \notin 200..299)
            => ~url_to_flag[u] /\ url_to_format[u] = "Unknown"

(***************************************************************************)
(* Properties of the answer of process_data                                *)
(***************************************************************************)
Responded == pc = "responded"

\* merge_data has returned a frame without rows
NoMatch == result_df # None /\ result_df.rows = <<>>

\* C21: when the filters match no record, merge_data returns a frame without
\* rows, the request never ends in an error and can always go on until it is
\* answered, group_by_domain_and_paginate returns zero groups, a total of 0
\* and has_next false, no check is started, and the answer has an empty data
\* list.
C21_NoMatchIsNotAnError ==
    NoMatch =>
        /\ pc # "error"
        /\ ~Responded => ENABLED Next
        /\ pagination_result # None =>
              /\ pagination_result.channel_summary = <<>>
              /\ pagination_result.detailed_data = <<>>
              /\ pagination_result.total_domains = 0
              /\ ~pagination_result.has_next
        /\ next_task = 1 /\ in_flight = {} /\ returned = EmptyMap
        /\ Responded =>
              /\ response.data = <<>>
              /\ response.total_count = 0
              /\ response.total_domains = 0
              /\ ~response.has_next

C21_Witness ==
    /\ Responded
    /\ NoMatch
    /\ industry_filter = "Toys"
    /\ merged_df # <<>>
    /\ response.data = <<>>

\* the rows of detailed_data a row of the answer was made of
DetailsOf(r) ==
    {i \in DOMAIN pagination_result.detailed_data :
        RowId(pagination_result.detailed_data[i]) = RowId(r)}

PageKeys ==
    {pagination_result.paginated_channels[g].key :
        g \in DOMAIN pagination_result.paginated_channels}

\* C29: every row of the answer belongs to a group of the requested page, was
\* classified with a marker and, when a format filter is given, has the
\* format asked for; a row whose own check failed or found no marker is not
\* in the answer.
C29_OnlyMarkedRowsOfThePage ==
    Responded =>
        /\ \A j \in DOMAIN response.data :
              /\ DetailsOf(response.data[j]) # {}
              /\ \A i \in DetailsOf(response.data[j]) :
                    /\ GroupKey(pagination_result.detailed_data[i],
                                pagination_result.group_column) \in PageKeys
                    /\ url_to_flag[UrlOf(i)]
              /\ FormatFilterActive(format_filter)
                    => response.data[j].format = Str(format_filter)
        /\ \A i \in DOMAIN pagination_result.detailed_data :
              ~returned[i].has_fw_tag
                  => \A j \in DOMAIN response.data : i \notin DetailsOf(response.data[j])

Classifying == pc \in {"paginated", "checking", "checked"}

\* C30: the classification step leaves the paging data alone:
\* pagination_result does not change from the grouping to the answer, and
\* total_domains, current_page, page_size and has_next of the answer are the
\* values computed from the ranked groups and the request, whatever the
\* fetches gave and whatever the format filter is.
C30_PagingDataUnchanged ==
    /\ [][Classifying => pagination_result' = pagination_result]_vars
    /\ [](Responded =>
            /\ response.total_domains = Len(Ranked)
            /\ response.current_page = page
            /\ response.page_size = page_size
            /\ response.has_next = ((page - 1) * page_size + page_size < Len(Ranked))
            /\ response.total_domains = pagination_result.total_domains
            /\ response.has_next = pagination_result.has_next)

\* a page of which no row is returned, and a next page
C30_Witness ==
    /\ Responded
    /\ pagination_result.detailed_data # <<>>
    /\ response.data = <<>>
    /\ response.total_count = 0
    /\ response.has_next
    /\ response.total_domains = 2

(***************************************************************************)
(* Properties of paging                                                    *)
(***************************************************************************)
Paginated == pc = "paginated"

\* C22: whenever group_by_domain_and_paginate slices the groups, the page it
\* slices for is at least 1: the slice starts at or after the first group and
\* has_next is computed from a positive page.
C22_PageAtLeastOne ==
    Paginated =>
        /\ pagination_result.current_page >= 1
        /\ (pagination_result.current_page - 1) * pagination_result.page_size >= 0

\* the groups the session has been shown on page q
GroupsOn(q) == Range(PageOf(Ranked, q, page_size))

\* C27: paging forward from page 1 ends and partitions the groups: a page
\* that says has_next shows a group no earlier page has shown (so the pages
\* with has_next are at most as many as the groups), and at the page that
\* says has_next false every group has been shown on exactly one page.
C27_PagingTerminates ==
    (Paginated /\ page >= 1) =>
        /\ GroupsOn(page) = Range(pagination_result.paginated_channels)
        /\ pagination_result.has_next =>
              \E g \in GroupsOn(page) : \A q \in 1..(page - 1) : g \notin GroupsOn(q)
        /\ ~pagination_result.has_next =>
              \A g \in Range(Ranked) : Cardinality({q \in 1..page : g \in GroupsOn(q)}) = 1

(***************************************************************************)
(* Conservation of records by the grouping                                 *)
(***************************************************************************)
\* the groups a row belongs to
GroupsOfRow(r) ==
    {g \in DOMAIN Ranked : Ranked[g].key = GroupKey(r, pagination_result.group_column)}

RECURSIVE SumUrlCount(_)
SumUrlCount(summary) ==
    IF summary = <<>> THEN 0 ELSE Head(summary).url_count + SumUrlCount(Tail(summary))

\* the totals of the groups added up; -1 when a total is not a number
RECURSIVE SumTotalViews(_)
SumTotalViews(summary) ==
    IF summary = <<>> THEN 0
    ELSE IF Head(summary).total_views.t # "int" \/ SumTotalViews(Tail(summary)) < 0 THEN -1
    ELSE Head(summary).total_views.v + SumTotalViews(Tail(summary))

CountsConserved ==
    /\ \A i \in DOMAIN result_df.rows : Cardinality(GroupsOfRow(result_df.rows[i])) = 1
    /\ SumUrlCount(Ranked) = Len(result_df.rows)

\* C28: every record passed to the grouping belongs to exactly one group:
\* the url_count of all groups add up to the number of records and the
\* total_views of all groups to the sum of all view counts, under grouping
\* by channel name and under grouping by hostname, records with an empty URL
\* or a URL without hostname included.
C28_GroupingConservesRecords ==
    AfterGroup =>
        /\ CountsConserved
        /\ SumTotalViews(Ranked) = NumericSum(result_df.rows)

(***************************************************************************)
(* Properties of the classifier on single documents                        *)
(***************************************************************************)
\* the document the site of u answers with
DocOf(u) == Join(Fetch(u).parts)

Unmarked(u) == ~url_to_flag[u] /\ url_to_format[u] = "Unknown"

C24_SameUnderCaseOrderBreaks ==
    Checked =>
        \A v \in Variants :
            (~Failed(Fetch(UrlA1)) /\ DocOf(UrlA1) = v[2]) => RecordedAs(UrlA1, Page(<<v[1]>>))

\* C26: every format of the rule list is the classification of some
\* document; in particular a document whose only marker is an fw-player-deck
\* tag is classified as Player Deck.
C26_PlayerDeckReachable ==
    (Checked /\ ~Failed(Fetch(UrlA1)) /\ DocOf(UrlA1) \in PlayerDeckDocs)
        => url_to_flag[UrlA1] /\ url_to_format[UrlA1] = "Player Deck"

(***************************************************************************)
(* Properties of GET /api/check-fw-tag                                     *)
(***************************************************************************)
\* C25: check_fw_tag_in_url returns what its callers unpack, two values, so
\* a request with a non-empty url is answered with has_fw_tag and
\* screenshot_url, the latter non-null exactly when has_fw_tag is true, and
\* the answer is 400 only when url is missing.
C25_ApiAnswersWithFlag ==
    api_response # None =>
        IF IsNull(api_response.url) \/ api_response.url.s = ""
        THEN api_response.status = 400
        ELSE /\ Len(ReturnedValues(Fetch(api_response.url.s))) = 2
             /\ api_response.status = 200
             /\ api_response.body.has_fw_tag
                    = check_fw_tag_in_url(Fetch(api_response.url.s)).has_fw_tag
             /\ (api_response.body.screenshot_url # None) = api_response.body.has_fw_tag

=============================================================================
